---- MODULE Spec2Model ----
(***************************************************************************)
(* Task orchestration and resource resilience layer of the LinkedIn        *)
(* scraper: the scheduler (utils/scheduler.py), the tiered proxy pool      *)
(* (utils/enhanced_proxy_handler.py) and the retry loops of the scrapers   *)
(* (app/scrapers/*.py, demo.py) with the routes that start them.           *)
(*                                                                         *)
(* Time is the integer number of seconds read by time.time().  Python      *)
(* dicts are functions whose DOMAIN is the set of keys present.            *)
(***************************************************************************)
EXTENDS Integers, Sequences, FiniteSets, TLC

VARIABLES
    \* ---- ScrapingScheduler (utils/scheduler.py)
    active_tasks,      \* dict task_id -> entry
    completed_tasks,   \* set of task ids
    processing,        \* set of task ids
    sched_now,         \* time.time() as seen by the scheduler
    sched_ticks,       \* number of clock advances taken (bounds the run)
    sched_last,        \* the last scheduler call and what it returned
    sched_accepted,    \* history: task_id -> time of its last Accepted schedule(), dropped
                       \*   by mark_task_complete(task_id) and clear_stale_tasks()
    sched_done,        \* history: ids whose active entry mark_task_complete() removed,
                       \*   emptied by clear_stale_tasks()
    sched_done_at,     \* history: task_id -> time at which mark_task_complete() removed
                       \*   its active entry, emptied by clear_stale_tasks()
    task_queue,        \* asyncio.PriorityQueue: list of queued entries
    sched_cleared,     \* history: the cool-off ids dropped by clear_stale_tasks() when it
                       \*   was the call before; after the schedule() that follows, only
                       \*   the id scheduled is kept
    \* ---- EnhancedProxyHandler (utils/enhanced_proxy_handler.py)
    proxy_groups,      \* dict "tier1" | "tier2" | "tier3" -> list of proxies
    proxy_usage,       \* dict proxy -> usage count
    proxy_cooldowns,   \* dict proxy -> time at which the cooldown ends
    proxy_failures,    \* dict proxy -> failure count
    pool_now,          \* time.time() as seen by the pool
    pool_ops,          \* number of pool calls and clock advances taken (bounds the run)
    pool_streak,       \* history: proxy -> the cooldown lengths set by its failures since
                       \*   its last success, oldest first
    pool_last,         \* the last pool call and what it returned
    \* ---- one scraper run (app/scrapers/*.py, demo.py) and its ProxyHandler
    ex_kind,           \* "company" | "profile" | "job" | "demo": whose retry loop runs
    ex_via,            \* "background" | "sync" | "script": how the route started it
    ex_pc,             \* where the run is
    retries,           \* the loop's retries counter
    ex_attempts,       \* history: extractor invocations made, counted up to MaxCounted
    ex_status,         \* the task record's status in the task store
    ex_error,          \* the task record's error string
    ex_terminals,      \* history: the terminal statuses written to the record
    ex_elapsed,        \* time.time() - start_time, held at MaxExecutionTime + 1 beyond it
    driver,            \* self.driver is set
    current_proxy,     \* self.current_proxy ("None" is Python's None)
    proxies,           \* ProxyHandler.proxies
    working_proxies,   \* ProxyHandler.working_proxies
    failed_proxies,    \* ProxyHandler.failed_proxies
    credentials,       \* LINKEDIN_USER and LINKEDIN_PASSWORD are both set
    ex_result_ref,     \* the task record carries result_id
    ex_all_raised,     \* every extractor call of the run so far has raised
    ex_prev_proxy,     \* current_proxy of the attempt that failed last
    \* ---- the scraper runs started for submitted work
    runs,              \* list of runs: the entity worked on, who started it, where it
                       \*   is, and the status of its task record
    \* ---- worker threads calling the one EnhancedProxyHandler
    workers,           \* thread -> where it is inside its pool call, the proxy the call
                       \*   is about and the count it has read
    race_calls,        \* history: calls started, and per proxy the mark_proxy_as_failed
                       \*   and get_optimal_proxy calls that have returned
    \* ---- _load_proxies (utils/enhanced_proxy_handler.py)
    loader,            \* all_proxies: the valid lines read from the proxy file, in file
                       \*   order; loaded: _load_proxies has run
    \* ---- LinkedInSessionManager (utils/session_manager.py)
    session_health,    \* dict email -> {"success": n, "failure": n}
    last_rotation,     \* self.last_rotation
    cookie_mtime,      \* email -> modification time of the account's cookie file
    sess_now,          \* time.time() as seen by the session manager
    sess_ticks,        \* number of clock advances taken (bounds the run)
    sess_last,         \* the last session-manager call and what it returned
    \* ---- RateLimitMiddleware (app/core/middleware.py)
    requests,          \* self.requests: dict ip -> list of time stamps
    rate_now,          \* time.time() as seen by the middleware
    rate_ticks,        \* number of clock advances taken (bounds the run)
    rate_last,         \* the last request dispatched and how it was answered
    rate_passed        \* history: ip -> arrival times of its requests handed to call_next

schedVars == <<active_tasks, completed_tasks, processing, sched_now, sched_ticks, sched_last,
              sched_accepted, sched_done, sched_done_at, task_queue, sched_cleared>>

poolVars == <<proxy_groups, proxy_usage, proxy_cooldowns, proxy_failures, pool_now, pool_ops, pool_streak, pool_last>>

execVars == <<ex_kind, ex_via, ex_pc, retries, ex_attempts, ex_status, ex_error, ex_terminals,
             ex_elapsed, driver, current_proxy, proxies, working_proxies, failed_proxies,
             credentials, ex_result_ref, ex_all_raised, ex_prev_proxy>>

raceVars == <<workers, race_calls>>

sessVars == <<session_health, last_rotation, cookie_mtime, sess_now, sess_ticks, sess_last>>

rateVars == <<requests, rate_now, rate_ticks, rate_last, rate_passed>>

vars == <<schedVars, poolVars, execVars, runs, raceVars, loader, sessVars, rateVars>>

(***************************************************************************)
(* Python dict helpers.                                                    *)
(***************************************************************************)
EmptyDict == [k \in {} |-> 0]

Put(d, k, v) == [x \in DOMAIN d \cup {k} |-> IF x = k THEN v ELSE d[x]]

Del(d, k) == [x \in DOMAIN d \ {k} |-> d[x]]

Get(d, k, default) == IF k \in DOMAIN d THEN d[k] ELSE default

Min2(a, b) == IF a <= b THEN a ELSE b

Max2(a, b) == IF a >= b THEN a ELSE b

RECURSIVE Pow2(_)
Pow2(n) == IF n <= 0 THEN 1 ELSE 2 * Pow2(n - 1)

(***************************************************************************)
(*                         ScrapingScheduler                               *)
(***************************************************************************)
StaleAfter == 600

\* schedule_task, line 65: "recently completed (within last 10 minutes)"
CoolOffWindow == 600

MaxSchedTicks == 2

\* The clock advances the scheduler is observed across: one second, or ten minutes.
SchedTickSteps == {1, StaleAfter}

\* The requests submitted: (task_type, entity_type, entity_id, url).
Requests ==
    { [task_type |-> "company_scrape", entity_type |-> "company", entity_id |-> "42", url |-> "https://l/c/42"],
      [task_type |-> "job_search",     entity_type |-> "company", entity_id |-> "42", url |-> "None"],
      [task_type |-> "job_scrape",     entity_type |-> "job",     entity_id |-> "7",  url |-> "None"],
      [task_type |-> "profile_scrape", entity_type |-> "profile", entity_id |-> "7",  url |-> "None"],
      [task_type |-> "page_scrape",    entity_type |-> "page",    entity_id |-> "7",  url |-> "None"] }

TaskId(entity_type, entity_id) == entity_type \o "_" \o entity_id

TaskIds == { TaskId(r.entity_type, r.entity_id) : r \in Requests }

\* The table with the company and profile values exchanged.
entity_importance_swapped == [job |-> 1, company |-> 2, profile |-> 3]

entity_importance == [job |-> 1, company |-> 3, profile |-> 2]

Priority(entity_type) == Get(entity_importance, entity_type, 1)

\* Staleness tests a slip would write: ">=" for ">", and one that never fires.
IsStaleGE(start_time, now) == now - start_time >= StaleAfter

IsStaleNever(start_time, now) == FALSE

\* schedule_task: time.time() - start_time > 600
IsStale(start_time, now) == now - start_time > StaleAfter

NoCall == [op |-> "none", task_id |-> "", scheduled |-> FALSE, reason |-> "", priority |-> 0]

Accepted(id, prio) ==
    [op |-> "schedule", task_id |-> id, scheduled |-> TRUE, reason |-> "", priority |-> prio]

Rejected(id, why) ==
    [op |-> "schedule", task_id |-> id, scheduled |-> FALSE, reason |-> why, priority |-> 0]

SchedInit ==
    /\ active_tasks = EmptyDict
    /\ completed_tasks = {}
    /\ processing = {}
    /\ sched_now = 0
    /\ sched_ticks = 0
    /\ sched_last = NoCall
    /\ sched_accepted = EmptyDict
    /\ sched_done = {}
    /\ sched_done_at = EmptyDict
    /\ task_queue = << >>
    /\ sched_cleared = {}

\* A clear_stale_tasks() that keeps the cool-off set, as its comment considers.
ClearStaleTasksKeepCompleted ==
    /\ active_tasks' = EmptyDict
    /\ processing' = {}
    /\ completed_tasks' = completed_tasks
    /\ sched_last' = [NoCall EXCEPT !.op = "clear"]
    /\ sched_accepted' = EmptyDict
    /\ sched_done' = {}
    /\ sched_done_at' = EmptyDict
    /\ sched_cleared' = completed_tasks
    /\ UNCHANGED <<sched_now, sched_ticks, task_queue>>

\* clear_stale_tasks()
ClearStaleTasks ==
    /\ active_tasks' = EmptyDict
    /\ processing' = {}
    /\ completed_tasks' = {}
    /\ sched_last' = [NoCall EXCEPT !.op = "clear"]
    /\ sched_accepted' = EmptyDict
    /\ sched_done' = {}
    /\ sched_done_at' = EmptyDict
    /\ sched_cleared' = completed_tasks
    /\ UNCHANGED <<sched_now, sched_ticks, task_queue>>

\* schedule_task(task_type, entity_type, entity_id, url)
ScheduleTask(r) ==
    LET task_id == TaskId(r.entity_type, r.entity_id)
        proc1   == processing \ {task_id}
        present == task_id \in DOMAIN active_tasks
        stale   == present /\ IsStale(active_tasks[task_id].start_time, sched_now)
        act1    == IF stale THEN Del(active_tasks, task_id) ELSE active_tasks
        prio    == Priority(r.entity_type)
        entry   == [type |-> r.task_type, entity_type |-> r.entity_type,
                    entity_id |-> r.entity_id, url |-> r.url,
                    start_time |-> sched_now, priority |-> prio]
    IN  /\ processing' = proc1
        /\ IF present /\ ~stale
           THEN /\ active_tasks' = active_tasks
                /\ sched_last' = Rejected(task_id, "Task already in progress")
                /\ UNCHANGED sched_accepted
           ELSE IF task_id \in completed_tasks
           THEN /\ active_tasks' = act1
                /\ sched_last' = Rejected(task_id, "Task recently completed")
                /\ UNCHANGED sched_accepted
           ELSE /\ active_tasks' = Put(act1, task_id, entry)
                /\ sched_last' = Accepted(task_id, prio)
                /\ sched_accepted' = Put(sched_accepted, task_id, sched_now)
        /\ sched_cleared' = sched_cleared \cap {task_id}
        /\ UNCHANGED <<completed_tasks, sched_now, sched_ticks, sched_done, sched_done_at, task_queue>>

\* A mark_task_complete that forgets the cool-off set.
MarkTaskCompleteNoCoolOff(task_id) ==
    /\ IF task_id = ""
       THEN UNCHANGED <<active_tasks, completed_tasks, processing, sched_accepted, sched_done, sched_done_at>>
       ELSE /\ IF task_id \in DOMAIN active_tasks
               THEN /\ active_tasks' = Del(active_tasks, task_id)
                    /\ sched_done' = sched_done \cup {task_id}
                    /\ sched_done_at' = Put(sched_done_at, task_id, sched_now)
               ELSE UNCHANGED <<active_tasks, sched_done, sched_done_at>>
            /\ UNCHANGED completed_tasks
            /\ processing' = processing \ {task_id}
            /\ sched_accepted' = Del(sched_accepted, task_id)
    /\ sched_last' = [NoCall EXCEPT !.op = "complete", !.task_id = task_id]
    /\ sched_cleared' = {}
    /\ UNCHANGED <<sched_now, sched_ticks, task_queue>>

\* A mark_task_complete that records the completion but leaves the active entry.
MarkTaskCompleteKeepActive(task_id) ==
    /\ IF task_id = ""
       THEN UNCHANGED <<active_tasks, completed_tasks, processing, sched_accepted, sched_done, sched_done_at>>
       ELSE /\ IF task_id \in DOMAIN active_tasks
               THEN /\ completed_tasks' = completed_tasks \cup {task_id}
                    /\ sched_done' = sched_done \cup {task_id}
                    /\ sched_done_at' = Put(sched_done_at, task_id, sched_now)
               ELSE UNCHANGED <<completed_tasks, sched_done, sched_done_at>>
            /\ UNCHANGED active_tasks
            /\ processing' = processing \ {task_id}
            /\ sched_accepted' = Del(sched_accepted, task_id)
    /\ sched_last' = [NoCall EXCEPT !.op = "complete", !.task_id = task_id]
    /\ sched_cleared' = {}
    /\ UNCHANGED <<sched_now, sched_ticks, task_queue>>

\* mark_task_complete(task_id)
MarkTaskComplete(task_id) ==
    /\ IF task_id = ""
       THEN UNCHANGED <<active_tasks, completed_tasks, processing, sched_accepted, sched_done, sched_done_at>>
       ELSE /\ IF task_id \in DOMAIN active_tasks
               THEN /\ active_tasks' = Del(active_tasks, task_id)
                    /\ completed_tasks' = completed_tasks \cup {task_id}
                    /\ sched_done' = sched_done \cup {task_id}
                    /\ sched_done_at' = Put(sched_done_at, task_id, sched_now)
               ELSE UNCHANGED <<active_tasks, completed_tasks, sched_done, sched_done_at>>
            /\ processing' = processing \ {task_id}
            /\ sched_accepted' = Del(sched_accepted, task_id)
    /\ sched_last' = [NoCall EXCEPT !.op = "complete", !.task_id = task_id]
    /\ sched_cleared' = {}
    /\ UNCHANGED <<sched_now, sched_ticks, task_queue>>

\* A worker takes up an active task: its id enters the processing set, the set
\* schedule_task and mark_task_complete remove ids from.
BeginProcessing(task_id) ==
    /\ task_id \in DOMAIN active_tasks
    /\ task_id \notin processing
    /\ processing' = processing \cup {task_id}
    /\ sched_last' = [NoCall EXCEPT !.op = "processing", !.task_id = task_id]
    /\ sched_cleared' = {}
    /\ UNCHANGED <<active_tasks, completed_tasks, sched_now, sched_ticks, sched_accepted,
                   sched_done, sched_done_at, task_queue>>

\* time.time() moves on between two calls
SchedTick ==
    /\ sched_ticks < MaxSchedTicks
    /\ \E d \in SchedTickSteps : sched_now' = sched_now + d
    /\ sched_ticks' = sched_ticks + 1
    /\ sched_last' = [NoCall EXCEPT !.op = "tick"]
    /\ sched_cleared' = {}
    /\ UNCHANGED <<active_tasks, completed_tasks, processing, sched_accepted, sched_done, sched_done_at,
                   task_queue>>

(***************************************************************************)
(*                        EnhancedProxyHandler                             *)
(***************************************************************************)
CooldownBase == 60

CooldownCap == 3600

MaxProxies == 3

\* Pool calls and clock advances in one run.
MaxPoolOps == 5

\* A pool of at most one proxy is followed further: seven failures reach the cap.
ExtraOpsSingle == 3

\* The clock advances the pool is observed across: the first cooldown, the cap.
PoolTickSteps == {CooldownBase, CooldownCap}

ProxyName(i) == "10.0.0." \o ToString(i) \o ":8080"

\* The valid lines of utils/proxies.txt, in file order.
ProxyFile(n) == [i \in 1..n |-> ProxyName(i)]

Tiers == <<"tier1", "tier2", "tier3">>

\* A split whose first two tiers take a third rounded up.
LoadProxiesRoundedUp(all_proxies) ==
    LET total == Len(all_proxies)
        tier1_count == (total + 2) \div 3
        tier2_count == Min2(tier1_count, total - tier1_count)
    IN  [tier1 |-> SubSeq(all_proxies, 1, tier1_count),
         tier2 |-> SubSeq(all_proxies, tier1_count + 1, tier1_count + tier2_count),
         tier3 |-> SubSeq(all_proxies, tier1_count + tier2_count + 1, total)]

\* _load_proxies(): the first third, the middle third, the remainder
LoadProxies(all_proxies) ==
    LET total == Len(all_proxies)
        tier1_count == total \div 3
        tier2_count == tier1_count
    IN  IF total = 0
        THEN [tier1 |-> << >>, tier2 |-> << >>, tier3 |-> << >>]
        ELSE [tier1 |-> SubSeq(all_proxies, 1, tier1_count),
              tier2 |-> SubSeq(all_proxies, tier1_count + 1, tier1_count + tier2_count),
              tier3 |-> SubSeq(all_proxies, tier1_count + tier2_count + 1, total)]

Range(seq) == { seq[i] : i \in 1..Len(seq) }

PoolProxies == Range(proxy_groups.tier1) \cup Range(proxy_groups.tier2) \cup Range(proxy_groups.tier3)

\* get_optimal_proxy, line 76: p in self.proxy_cooldowns and self.proxy_cooldowns[p] > time.time()
OnCooldown(p) == p \in DOMAIN proxy_cooldowns /\ proxy_cooldowns[p] > pool_now

\* A filter that never takes back a proxy that has a cooldown entry.
SelectableNeverAgain(p) == p \notin DOMAIN proxy_cooldowns

\* A filter that lets every proxy through.
SelectableAlways(p) == TRUE

\* get_optimal_proxy, line 91: p not in self.proxy_cooldowns or self.proxy_cooldowns[p] < current_time
Selectable(p) == p \notin DOMAIN proxy_cooldowns \/ proxy_cooldowns[p] < pool_now

\* get_optimal_proxy, line 72
RequestedTier(task_importance) ==
    IF 1 <= task_importance /\ task_importance <= 3 THEN Tiers[task_importance] ELSE "tier1"

\* get_optimal_proxy, lines 75-85: the tier the proxy is taken from
ChosenTier(task_importance) ==
    LET tier == RequestedTier(task_importance)
        needFallback == \/ proxy_groups[tier] = << >>
                        \/ \A p \in Range(proxy_groups[tier]) : OnCooldown(p)
        others == { i \in 1..3 : Tiers[i] # tier /\ proxy_groups[Tiers[i]] # << >> }
    IN  IF needFallback /\ others # {}
        THEN Tiers[CHOOSE i \in others : \A j \in others : i <= j]
        ELSE tier

\* get_optimal_proxy, lines 88-92
AvailableProxies(tier) == SelectSeq(proxy_groups[tier], Selectable)

\* A selection that takes the last of the least used instead of the first.
LeastUsedLast(available) ==
    LET use(i) == Get(proxy_usage, available[i], 0)
        best == CHOOSE i \in 1..Len(available) :
                    /\ \A j \in 1..Len(available) : use(i) <= use(j)
                    /\ \A j \in (i + 1)..Len(available) : use(j) > use(i)
    IN  available[best]

\* min(available_proxies, key=usage): the first of the least used
LeastUsed(available) ==
    LET use(i) == Get(proxy_usage, available[i], 0)
        best == CHOOSE i \in 1..Len(available) :
                    /\ \A j \in 1..Len(available) : use(i) <= use(j)
                    /\ \A j \in 1..(i - 1) : use(j) > use(i)
    IN  available[best]

OpsBudget == IF Cardinality(PoolProxies) <= 1 THEN MaxPoolOps + ExtraOpsSingle ELSE MaxPoolOps

\* One more step of the bounded run.
PoolOp == pool_ops < OpsBudget /\ pool_ops' = pool_ops + 1

NoPoolCall == [op |-> "none", proxy |-> ""]

PoolInitWith(n) ==
    /\ loader = [all_proxies |-> ProxyFile(n), loaded |-> TRUE]
    /\ proxy_groups = LoadProxies(ProxyFile(n))
    /\ proxy_usage = EmptyDict
    /\ proxy_cooldowns = EmptyDict
    /\ proxy_failures = EmptyDict
    /\ pool_now = 0
    /\ pool_ops = 0
    /\ pool_streak = EmptyDict
    /\ pool_last = NoPoolCall

\* The pool after __init__, for a proxy file of any size up to MaxProxies.
PoolInit == \E n \in 0..MaxProxies : PoolInitWith(n)

PoolIdle == PoolInitWith(0)

\* Valid lines in a proxy file.
MaxLoaded == 6

\* The proxy files read: any list of up to MaxLoaded valid lines, repeats included.
LoadedFiles == UNION { [1..n -> { ProxyName(i) : i \in 1..MaxProxies }] : n \in 0..MaxLoaded }

\* __init__ up to the call of _load_proxies(): empty tiers and dicts
LoadInit ==
    /\ loader \in [all_proxies : LoadedFiles, loaded : {FALSE}]
    /\ proxy_groups = [tier1 |-> << >>, tier2 |-> << >>, tier3 |-> << >>]
    /\ proxy_usage = EmptyDict
    /\ proxy_cooldowns = EmptyDict
    /\ proxy_failures = EmptyDict
    /\ pool_now = 0
    /\ pool_ops = 0
    /\ pool_streak = EmptyDict
    /\ pool_last = NoPoolCall

\* _load_proxies(), called last in __init__
Load ==
    /\ ~loader.loaded
    /\ proxy_groups' = LoadProxies(loader.all_proxies)
    /\ loader' = [loader EXCEPT !.loaded = TRUE]
    /\ UNCHANGED <<proxy_usage, proxy_cooldowns, proxy_failures, pool_now, pool_ops,
                   pool_streak, pool_last>>

\* get_optimal_proxy(task_importance); proxy "None" is Python's None
GetOptimalProxy(task_importance) ==
    LET available == AvailableProxies(ChosenTier(task_importance))
    IN  /\ PoolOp
        /\ IF available = << >>
           THEN /\ pool_last' = [op |-> "acquire", proxy |-> "None"]
                /\ UNCHANGED <<proxy_groups, proxy_usage, proxy_cooldowns, proxy_failures,
                               pool_now, pool_streak>>
           ELSE LET proxy == LeastUsed(available)
                IN  /\ proxy_usage' = Put(proxy_usage, proxy, Get(proxy_usage, proxy, 0) + 1)
                    /\ pool_last' = [op |-> "acquire", proxy |-> proxy]
                    /\ UNCHANGED <<proxy_groups, proxy_cooldowns, proxy_failures,
                                   pool_now, pool_streak>>

\* Cooldown lengths a slip would write: the exponent off by one, and no cap.
CooldownForOffByOne(failures) == Min2(CooldownBase * Pow2(failures), CooldownCap)

\* mark_proxy_as_failed, line 114: min(60 * (2 ** (failures - 1)), 3600)
CooldownFor(failures) == Min2(CooldownBase * Pow2(failures - 1), CooldownCap)

\* mark_proxy_as_failed(proxy)
MarkProxyAsFailed(proxy) ==
    /\ PoolOp
    /\ IF proxy = ""
       THEN UNCHANGED <<proxy_failures, proxy_cooldowns, pool_streak>>
       ELSE LET failures == Get(proxy_failures, proxy, 0) + 1
            IN  /\ proxy_failures' = Put(proxy_failures, proxy, failures)
                /\ proxy_cooldowns' = Put(proxy_cooldowns, proxy, pool_now + CooldownFor(failures))
                /\ pool_streak' = Put(pool_streak, proxy,
                                      Append(Get(pool_streak, proxy, << >>), CooldownFor(failures)))
    /\ pool_last' = [op |-> "failed", proxy |-> proxy]
    /\ UNCHANGED <<proxy_groups, proxy_usage, pool_now>>

\* Failure counts after a success as a slip would write them: reset to 0, or left alone.
FailuresAfterSuccessReset(failures) == 0

\* mark_proxy_success, line 124: max(0, self.proxy_failures[proxy] - 1)
FailuresAfterSuccess(failures) == Max2(0, failures - 1)

\* mark_proxy_success(proxy)
MarkProxySuccess(proxy) ==
    /\ PoolOp
    /\ IF proxy = ""
       THEN UNCHANGED <<proxy_failures, proxy_cooldowns, pool_streak>>
       ELSE /\ proxy_failures' =
                  IF proxy \in DOMAIN proxy_failures /\ proxy_failures[proxy] > 0
                  THEN Put(proxy_failures, proxy, FailuresAfterSuccess(proxy_failures[proxy]))
                  ELSE proxy_failures
            /\ proxy_cooldowns' = Del(proxy_cooldowns, proxy)
            /\ pool_streak' = Put(pool_streak, proxy, << >>)
    /\ pool_last' = [op |-> "success", proxy |-> proxy]
    /\ UNCHANGED <<proxy_groups, proxy_usage, pool_now>>

\* get_status()
GetStatus ==
    LET count(tier) == Len(SelectSeq(proxy_groups[tier], Selectable))
    IN  [total_proxies     |-> Len(proxy_groups.tier1) + Len(proxy_groups.tier2)
                                 + Len(proxy_groups.tier3),
         available_proxies |-> count("tier1") + count("tier2") + count("tier3"),
         cooldown_proxies  |-> Cardinality(DOMAIN proxy_cooldowns),
         failed_proxies    |-> Cardinality(DOMAIN proxy_failures),
         tiers             |-> [tier \in Range(Tiers) |-> Len(proxy_groups[tier])]]

\* time.time() moves on between two calls
PoolTick ==
    /\ PoolOp
    /\ \E d \in PoolTickSteps : pool_now' = pool_now + d
    /\ pool_last' = [op |-> "tick", proxy |-> ""]
    /\ UNCHANGED <<proxy_groups, proxy_usage, proxy_cooldowns, proxy_failures, pool_streak>>

Importances == 0..4

(***************************************************************************)
(* The pool called from several threads.  EnhancedProxyHandler holds no    *)
(* lock, so a thread can be switched out between the dict read and the     *)
(* dict store of one statement; each call is the read step and then the    *)
(* store step.                                                             *)
(***************************************************************************)
MaxThreads == 2

\* Pool calls started in one run.
MaxRaceCalls == 3

Threads == 1..MaxThreads

WorkerIdle == [pc |-> "idle", proxy |-> "", seen |-> 0]

WorkersIdle ==
    /\ workers = [t \in Threads |-> WorkerIdle]
    /\ race_calls = [started |-> 0, failed |-> EmptyDict, acquired |-> EmptyDict]

\* One more call of the bounded run starts on an idle thread.
RaceCall(t) ==
    /\ workers[t].pc = "idle"
    /\ race_calls.started < MaxRaceCalls

\* mark_proxy_as_failed, line 110, right-hand side: self.proxy_failures.get(proxy, 0)
FailedRead(t, proxy) ==
    /\ RaceCall(t)
    /\ workers' = [workers EXCEPT ![t] = [pc |-> "failed_store", proxy |-> proxy,
                                          seen |-> Get(proxy_failures, proxy, 0)]]
    /\ race_calls' = [race_calls EXCEPT !.started = @ + 1]
    /\ UNCHANGED poolVars

\* mark_proxy_as_failed, lines 110-117: the store of the count read, plus 1, and the
\* cooldown computed from the count now in the dict
FailedWrite(t) ==
    /\ workers[t].pc = "failed_store"
    /\ LET proxy == workers[t].proxy
           failures == workers[t].seen + 1
       IN  /\ proxy_failures' = Put(proxy_failures, proxy, failures)
           /\ proxy_cooldowns' = Put(proxy_cooldowns, proxy, pool_now + CooldownFor(failures))
           /\ race_calls' = [race_calls EXCEPT
                                !.failed = Put(@, proxy, Get(@, proxy, 0) + 1)]
    /\ workers' = [workers EXCEPT ![t] = WorkerIdle]
    /\ UNCHANGED <<proxy_groups, proxy_usage, pool_now, pool_ops, pool_streak, pool_last>>

\* get_optimal_proxy, lines 69-101 up to the right-hand side of line 101:
\* the proxy is selected and self.proxy_usage.get(proxy, 0) is read
AcquireRead(t, task_importance) ==
    LET available == AvailableProxies(ChosenTier(task_importance))
    IN  /\ RaceCall(t)
        /\ race_calls' = [race_calls EXCEPT !.started = @ + 1]
        /\ workers' = IF available = << >>
                      THEN workers
                      ELSE [workers EXCEPT ![t] =
                               [pc |-> "acquire_store", proxy |-> LeastUsed(available),
                                seen |-> Get(proxy_usage, LeastUsed(available), 0)]]
        /\ UNCHANGED poolVars

\* get_optimal_proxy, lines 101-104: the store of the usage read, plus 1, and the return
AcquireWrite(t) ==
    /\ workers[t].pc = "acquire_store"
    /\ LET proxy == workers[t].proxy
       IN  /\ proxy_usage' = Put(proxy_usage, proxy, workers[t].seen + 1)
           /\ race_calls' = [race_calls EXCEPT
                                !.acquired = Put(@, proxy, Get(@, proxy, 0) + 1)]
    /\ workers' = [workers EXCEPT ![t] = WorkerIdle]
    /\ UNCHANGED <<proxy_groups, proxy_cooldowns, proxy_failures, pool_now, pool_ops,
                   pool_streak, pool_last>>

(***************************************************************************)
(*        The retry loops: scrape_company, scrape_profile, scrape_job,     *)
(*        demo scrape_with_retry, and the ProxyHandler each of them owns   *)
(***************************************************************************)
max_retries == 3

max_execution_time == 300

\* Extractor invocations are counted up to this number.
MaxCounted == 5

\* find_working_proxies(count=5)
WantedWorking == 5

\* The proxy files a ProxyHandler is loaded from.
ProxyFiles == { {}, {"pA"}, {"pA", "pB"} }

\* How each loop is started: the company route and the background branch of the
\* profile route wrap the call; the job route and the synchronous profile branch call
\* the scraper directly; demo.py runs scrape_with_retry from a script.
Launches ==
    { <<"company", "background">>, <<"profile", "background">>, <<"profile", "sync">>,
      <<"job", "background">>, <<"demo", "script">> }

HasStore(kind) == kind # "demo"

TerminalStatuses == {"completed", "failed"}

\* Seconds one extractor call takes; CustomCompanyScraper.scrape_company sleeps 5 s first.
ExtractSeconds == {5, 100, 301}

\* The sleep before a retry: company 2 ** retries + random.uniform(0, 1), the others 2 s
\* (demo: random.uniform(2, 5)).
RetrySleep(kind, n) ==
    IF kind = "company" THEN {Pow2(n), Pow2(n) + 1}
    ELSE IF kind = "demo" THEN {2, 5}
    ELSE {2}

Elapse(d) == Min2(ex_elapsed + d, max_execution_time + 1)

(* update_task(task_id, status, error=...): writes status, and error when given *)
UpdateTask(status, error) ==
    /\ ex_status' = IF HasStore(ex_kind) THEN status ELSE ex_status
    /\ ex_error' = IF HasStore(ex_kind) /\ error # "" THEN error ELSE ex_error
    /\ ex_terminals' = IF HasStore(ex_kind) /\ status \in TerminalStatuses
                       THEN ex_terminals \cup {status} ELSE ex_terminals
    /\ ex_result_ref' = ex_result_ref

(* update_task(task_id, status, result_id=result.inserted_id) *)
UpdateTaskResult(status) ==
    /\ ex_status' = IF HasStore(ex_kind) THEN status ELSE ex_status
    /\ ex_error' = ex_error
    /\ ex_terminals' = IF HasStore(ex_kind) /\ status \in TerminalStatuses
                       THEN ex_terminals \cup {status} ELSE ex_terminals
    /\ ex_result_ref' = HasStore(ex_kind)

NoWrite == UNCHANGED <<ex_status, ex_error, ex_terminals, ex_result_ref>>

ExecInitWith(launch, file) ==
    /\ ex_kind = launch[1]
    /\ ex_via = launch[2]
    /\ ex_pc = "created"
    /\ retries = 0
    /\ ex_attempts = 0
    /\ ex_status = IF HasStore(launch[1]) THEN "pending" ELSE "none"
    /\ ex_error = ""
    /\ ex_terminals = {}
    /\ ex_elapsed = 0
    /\ driver = FALSE
    /\ current_proxy = "None"
    /\ proxies = file
    /\ working_proxies = {}
    /\ failed_proxies = {}
    /\ ex_result_ref = FALSE
    /\ ex_all_raised = TRUE
    /\ ex_prev_proxy = "NoFailure"

\* The task record is in the store with status pending; the scraper and its
\* ProxyHandler are constructed.
ExecInit ==
    \E launch \in Launches, file \in ProxyFiles :
        ExecInitWith(launch, file) /\ credentials \in BOOLEAN

ExecIdle == ExecInitWith(<<"demo", "script">>, {}) /\ credentials = FALSE

\* scrape_with_error_handling (routes/companies.py, routes/profiles.py): the wrapper
\* writes in_progress before it calls the scraper.
RouteStart ==
    /\ ex_pc = "created"
    /\ ex_pc' = "called"
    /\ IF ex_via = "background" /\ ex_kind \in {"company", "profile"}
       THEN UpdateTask("in_progress", "")
       ELSE NoWrite
    /\ UNCHANGED <<ex_kind, ex_via, credentials, ex_all_raised, ex_prev_proxy, retries,
                   ex_attempts, ex_elapsed, driver, current_proxy,
                   proxies, working_proxies, failed_proxies>>

\* Entry of scrape_company / scrape_job: update_task(task_id, "in_progress") and
\* start_time = time.time(); scrape_profile and scrape_with_retry write nothing here.
\* demo.py has set up its driver in __init__.
Enter ==
    /\ ex_pc = "called"
    /\ ex_pc' = "loop"
    /\ IF ex_kind \in {"company", "job"} THEN UpdateTask("in_progress", "") ELSE NoWrite
    /\ ex_elapsed' = 0
    /\ UNCHANGED <<ex_kind, ex_via, credentials, ex_all_raised, ex_prev_proxy, retries,
                   ex_attempts, driver, current_proxy,
                   proxies, working_proxies, failed_proxies>>

\* while retries < max_retries, and in scrape_company the deadline check that opens
\* the loop body.
LoopHead ==
    /\ ex_pc = "loop"
    /\ IF retries >= max_retries
       THEN ex_pc' = "returned" /\ NoWrite
       ELSE IF ex_kind = "company" /\ ex_elapsed > max_execution_time
       THEN ex_pc' = "returned" /\ UpdateTask("failed", "Task timed out after 5 minutes")
       ELSE /\ ex_pc' = IF ex_kind = "demo" THEN "extract" ELSE "setup"
            /\ NoWrite
    /\ UNCHANGED <<ex_kind, ex_via, credentials, ex_all_raised, ex_prev_proxy, retries,
                   ex_attempts, ex_elapsed, driver, current_proxy,
                   proxies, working_proxies, failed_proxies>>

\* ProxyHandler.find_working_proxies(): the proxies that pass test_proxy become the
\* working list, the ones that fail it are added to the failed set; the failed set is
\* emptied first when fewer than 5 untested proxies are left.
FindWorkingProxies(passing) ==
    LET untested  == proxies \ failed_proxies
        reset     == Cardinality(untested) < WantedWorking
        available == IF reset THEN proxies ELSE untested
        failed0   == IF reset THEN {} ELSE failed_proxies
        found     == passing \cap available
    IN  [working |-> found, failed |-> failed0 \cup (available \ found)]

\* setup_driver(): create_driver(use_proxy=True), and create_driver(use_proxy=False)
\* when that gave no driver.  passing: the proxies that pass test_proxy; chrome1,
\* chrome2: whether webdriver.Chrome starts in the first and in the second call.
SetupDriver(passing, pick, chrome1, chrome2) ==
    LET search == working_proxies = {}
        fw     == FindWorkingProxies(passing)
        work1  == IF search THEN fw.working ELSE working_proxies
        fail1  == IF search THEN fw.failed ELSE failed_proxies
        proxy  == IF work1 = {} THEN "None" ELSE pick
    IN  /\ (work1 # {}) => pick \in work1
        /\ (work1 = {}) => pick = "None"
        /\ working_proxies' = work1
        /\ failed_proxies' = fail1
        /\ current_proxy' = IF chrome1 THEN proxy ELSE "None"
        /\ driver' = (chrome1 \/ chrome2)

\* The choices a setup_driver() call is made with.
SetupChoices ==
    { c \in [passing : SUBSET proxies, pick : proxies \cup {"None"}, chrome1 : BOOLEAN, chrome2 : BOOLEAN] :
        c.chrome1 => ~c.chrome2 }

\* The loop body up to authentication: setup_driver() (scrape_job: only when there is
\* no driver yet) and, when it gives no driver, the terminal failed write.
Setup ==
    /\ ex_pc = "setup"
    /\ IF ex_kind = "job" /\ driver
       THEN /\ ex_pc' = "auth"
            /\ NoWrite
            /\ UNCHANGED <<driver, current_proxy, working_proxies, failed_proxies>>
       ELSE \E c \in SetupChoices :
              /\ SetupDriver(c.passing, c.pick, c.chrome1, c.chrome2)
              /\ IF driver'
                 THEN ex_pc' = "auth" /\ NoWrite
                 ELSE ex_pc' = "returned" /\ UpdateTask("failed", "Failed to initialize WebDriver")
    /\ UNCHANGED <<ex_kind, ex_via, credentials, ex_all_raised, ex_prev_proxy, retries, ex_attempts, ex_elapsed, proxies>>

\* authenticate() and, when it returns False, the terminal failed write.
Authenticate ==
    /\ ex_pc = "auth"
    /\ \E ok \in BOOLEAN :
          IF ok
          THEN ex_pc' = "extract" /\ NoWrite
          ELSE ex_pc' = "returned" /\ UpdateTask("failed", "Authentication failed")
    /\ UNCHANGED <<ex_kind, ex_via, credentials, ex_all_raised, ex_prev_proxy, retries,
                   ex_attempts, ex_elapsed, driver, current_proxy,
                   proxies, working_proxies, failed_proxies>>

\* What the loop sees of an extractor outcome: _scrape_profile catches every error of
\* Person(...) and returns None.
Seen(kind, outcome) == IF kind = "profile" /\ outcome = "raise" THEN "empty" ELSE outcome

\* The extractor call, and in scrape_company the processing write that follows a
\* call that returned.
Extract ==
    /\ ex_pc = "extract"
    /\ \E outcome \in {"data", "empty", "raise"}, d \in ExtractSeconds :
          LET seen == Seen(ex_kind, outcome)
          IN  /\ ex_elapsed' = Elapse(d)
              /\ ex_all_raised' = (ex_all_raised /\ outcome = "raise")
              /\ ex_pc' = CASE seen = "data" -> "got_data"
                            [] seen = "empty" -> "got_empty"
                            [] OTHER -> "except"
              /\ IF ex_kind = "company" /\ seen # "raise"
                 THEN UpdateTask("processing", "")
                 ELSE NoWrite
    /\ ex_attempts' = Min2(ex_attempts + 1, MaxCounted)
    /\ UNCHANGED <<ex_kind, ex_via, credentials, ex_prev_proxy, retries, driver, current_proxy,
                   proxies, working_proxies, failed_proxies>>

\* Where the loop goes after the completed write when the return is forgotten.
PcAfterCompletedLoop == "loop"

\* return company_data, right after the completed write
PcAfterCompleted == "returned"

\* if data: insert_one, update_task(task_id, "completed", result_id=...), return; an
\* insert_one that raises lands in the except clause.  scrape_with_retry just returns
\* the data.
Persist ==
    /\ ex_pc = "got_data"
    /\ \E inserted \in BOOLEAN :
          IF inserted \/ ~HasStore(ex_kind)
          THEN ex_pc' = PcAfterCompleted /\ UpdateTaskResult("completed")
          ELSE ex_pc' = "except" /\ NoWrite
    /\ UNCHANGED <<ex_kind, ex_via, credentials, ex_all_raised, ex_prev_proxy, retries,
                   ex_attempts, ex_elapsed, driver, current_proxy,
                   proxies, working_proxies, failed_proxies>>

\* The retries counter after an extractor call that returned nothing, and as a slip
\* would have it.
RetriesAfterEmptyCounted(n) == n + 1

\* No data returned: the loops log a warning and leave retries alone.
RetriesAfterEmpty(n) == n

\* An empty result: scrape_job writes completed (count=0) and returns; the other loops
\* go round again.
Empty ==
    /\ ex_pc = "got_empty"
    /\ IF ex_kind = "job"
       THEN ex_pc' = "returned" /\ UpdateTask("completed", "") /\ UNCHANGED retries
       ELSE ex_pc' = "loop" /\ NoWrite /\ retries' = RetriesAfterEmpty(retries)
    /\ UNCHANGED <<ex_kind, ex_via, credentials, ex_all_raised, ex_prev_proxy, ex_attempts, ex_elapsed, driver, current_proxy,
                   proxies, working_proxies, failed_proxies>>

\* ProxyHandler.mark_proxy_as_failed(proxy)
PHMarkFailed(proxy) ==
    /\ working_proxies' = working_proxies \ {proxy}
    /\ failed_proxies' = failed_proxies \cup {proxy}

\* The status the last except clause leaves in the record, as a slip would have it.
StatusWhenExhaustedKept(status) == status

\* except clause, retries = max_retries: update_task(task_id, "failed", ...)
StatusWhenExhausted(status) == "failed"

\* except Exception: mark the current proxy failed, count the retry, then sleep before
\* the next round or write failed after the last one.  demo.py goes on to set up a
\* new driver before it sleeps.
Except ==
    /\ ex_pc = "except"
    /\ IF current_proxy # "None"
       THEN PHMarkFailed(current_proxy)
       ELSE UNCHANGED <<working_proxies, failed_proxies>>
    /\ retries' = retries + 1
    /\ IF retries' < max_retries
       THEN /\ NoWrite
            /\ IF ex_kind = "demo"
               THEN ex_pc' = "resetup" /\ UNCHANGED ex_elapsed
               ELSE /\ ex_pc' = "loop"
                    /\ \E d \in RetrySleep(ex_kind, retries') : ex_elapsed' = Elapse(d)
       ELSE /\ ex_pc' = "loop"
            /\ UpdateTask(StatusWhenExhausted(ex_status), "Failed after 3 attempts")
            /\ UNCHANGED ex_elapsed
    /\ ex_prev_proxy' = current_proxy
    /\ UNCHANGED <<ex_kind, ex_via, credentials, ex_all_raised, ex_attempts, driver, current_proxy,
                   proxies>>

\* scrape_with_retry, before a retry: self.setup_driver(); if not self.authenticate():
\* continue; time.sleep(random.uniform(2, 5))
Resetup ==
    /\ ex_pc = "resetup"
    /\ ex_pc' = "loop"
    /\ \E c \in SetupChoices, auth_ok \in BOOLEAN, d \in RetrySleep(ex_kind, retries) :
          /\ SetupDriver(c.passing, c.pick, c.chrome1, c.chrome2)
          /\ ex_elapsed' = IF driver' /\ auth_ok THEN Elapse(d) ELSE ex_elapsed
    /\ NoWrite
    /\ UNCHANGED <<ex_kind, ex_via, credentials, ex_all_raised, ex_prev_proxy, retries, ex_attempts, proxies>>

(***************************************************************************)
(*      Submissions and the runs they start                                *)
(*                                                                         *)
(* A run is the retry loop above seen through its task record: created by  *)
(* the submission, in_progress on entry, processing after an extractor     *)
(* call, then returned with a terminal status.                             *)
(***************************************************************************)
MaxRuns == 2

\* The company pages submitted to POST /scrape.
RouteRequests == { r \in Requests : r.entity_type = "company" /\ r.url # "None" }

\* store_id: the _id of the task record the run writes its status to
NewRun(entity, by, store_id) ==
    [entity |-> entity, by |-> by, pc |-> "created", status |-> "pending", store_id |-> store_id]

\* task_id = str(uuid.uuid4()): a new id for every submission
Uuid4 == "uuid4-" \o ToString(Len(runs) + 1)

Running(i) == runs[i].pc # "returned"

\* routes/companies.py, scrape_company: create_task() under a new uuid4, then the
\* scraper is started as a background task.
RouteScrape(r) ==
    /\ Len(runs) < MaxRuns
    /\ runs' = Append(runs, NewRun(TaskId(r.entity_type, r.entity_id), "route", Uuid4))
    /\ UNCHANGED schedVars

\* The worker side of schedule(): a request that schedule_task() accepts is handed
\* to a scraper run.
Dispatch(r) ==
    /\ Len(runs) < MaxRuns
    /\ ScheduleTask(r)
    /\ runs' = IF sched_last'.scheduled
               THEN Append(runs, NewRun(sched_last'.task_id, "scheduler", sched_last'.task_id))
               ELSE runs

\* scrape_company: update_task(task_id, "in_progress") on entry
RunEnter(i) ==
    /\ runs[i].pc = "created"
    /\ runs' = [runs EXCEPT ![i].pc = "in_progress", ![i].status = "in_progress"]
    /\ UNCHANGED schedVars

\* scrape_company: update_task(task_id, "processing") after the extractor call
RunProcess(i) ==
    /\ runs[i].pc = "in_progress"
    /\ runs' = [runs EXCEPT ![i].pc = "processing", ![i].status = "processing"]
    /\ UNCHANGED schedVars

\* scrape_company: the terminal update_task and the return
RunReturn(i, status) ==
    /\ runs[i].pc \in {"in_progress", "processing"}
    /\ status = "failed" \/ runs[i].pc = "processing"
    /\ runs' = [runs EXCEPT ![i].pc = "returned", ![i].status = status]
    /\ UNCHANGED schedVars

\* The worker side of completion: markComplete(taskId) for a run that schedule()
\* started and that has returned completed.
RunMarkComplete(i) ==
    /\ runs[i].pc = "returned" /\ runs[i].status = "completed" /\ runs[i].by = "scheduler"
    /\ runs[i].entity \in DOMAIN active_tasks
    /\ MarkTaskComplete(runs[i].entity)
    /\ UNCHANGED runs

SysTick == SchedTick /\ UNCHANGED runs

(***************************************************************************)
(* LinkedInSessionManager (utils/session_manager.py).  Python's float is   *)
(* the IEEE 754 double: a mantissa of 53 binary digits times a power of    *)
(* two, every operation rounded to nearest, ties to even.  A mantissa is   *)
(* held here as three limbs hi, mid, lo of HiBits, MidBits and LoBits      *)
(* digits: hi * 2^35 + mid * 2^17 + lo.                                    *)
(***************************************************************************)
HiBits == 18

MidBits == 18

LoBits == 17

RECURSIVE LeadingZeros(_, _)
\* The zero digits of r / t between the binary point and its first one, 0 < r < t.
LeadingZeros(r, t) ==
    IF 2 * r >= t THEN 0 ELSE 1 + LeadingZeros(2 * r, t)

\* Carries moved up, so that mid and lo are within their limbs again.
Carry(hi, mid, lo) ==
    LET mid1 == mid + lo \div Pow2(LoBits)
    IN  [hi |-> hi + mid1 \div Pow2(MidBits), mid |-> mid1 % Pow2(MidBits), lo |-> lo % Pow2(LoBits)]

\* s / t in float arithmetic, for 0 < s < t: the first 53 digits of the quotient
\* from its first one on, rounded by the remainder; the value is the mantissa
\* times 2^-(z + 53).
DoubleDiv(s, t) ==
    LET z   == LeadingZeros(s, t)
        r   == s * Pow2(z)
        hi  == (r * Pow2(HiBits)) \div t
        r1  == (r * Pow2(HiBits)) % t
        mid == (r1 * Pow2(MidBits)) \div t
        r2  == (r1 * Pow2(MidBits)) % t
        lo  == (r2 * Pow2(LoBits)) \div t
        r3  == (r2 * Pow2(LoBits)) % t
        up  == IF 2 * r3 > t \/ (2 * r3 = t /\ lo % 2 = 1) THEN 1 ELSE 0
    IN  [m |-> Carry(hi, mid, lo + up), z |-> z]

\* x * 100 in float arithmetic: the exact product, 6 or 7 digits longer than a
\* mantissa, with the digits beyond 53 rounded off (and left as zeros).
DoubleTimes100(x) ==
    LET p    == Carry(x.m.hi * 100, x.m.mid * 100, x.m.lo * 100)
        d    == IF p.hi >= Pow2(HiBits + 6) THEN 7 ELSE 6
        cut  == p.lo % Pow2(d)
        odd  == (p.lo \div Pow2(d)) % 2 = 1
        half == Pow2(d - 1)
        up   == IF cut > half \/ (cut = half /\ odd) THEN Pow2(d) ELSE 0
    IN  [m |-> Carry(p.hi, p.mid, p.lo - cut + up), z |-> x.z]

\* int(x) for a float x >= 0: the digits before the binary point
DoubleToInt(x) == x.m.hi \div Pow2(x.z + HiBits)

\* get_session_health, line 102: int((stats["success"] / total) * 100)
HealthOf(success, total) ==
    IF success = 0 THEN 0
    ELSE IF success = total THEN 100
    ELSE DoubleToInt(DoubleTimes100(DoubleDiv(success, total)))

\* The accounts sessions are kept for.
Accounts == {"a@x.io", "b@x.io"}

rotation_interval == 1800

\* has_valid_cookies, line 37: cookies are fresh while younger than 24 hours
CookieMaxAge == 86400

NoStats == [success |-> 0, failure |-> 0]

\* get_session_health(email)
GetSessionHealth(email) ==
    IF email \notin DOMAIN session_health THEN 100
    ELSE LET stats == session_health[email]
             total == stats.success + stats.failure
         IN  IF total = 0 THEN 100 ELSE HealthOf(stats.success, total)

NoSessCall == [op |-> "none", email |-> "", result |-> FALSE]

\* LinkedInSessionManager.__init__ at time 0; no cookie file saved yet
SessInit ==
    /\ session_health = EmptyDict
    /\ last_rotation = 0
    /\ cookie_mtime = EmptyDict
    /\ sess_now = 0
    /\ sess_ticks = 0
    /\ sess_last = NoSessCall

\* mark_session_success(email)
MarkSessionSuccess(email) ==
    /\ LET stats == Get(session_health, email, NoStats)
       IN  session_health' = Put(session_health, email,
                                 [stats EXCEPT !.success = @ + 1])
    /\ sess_last' = [op |-> "success", email |-> email, result |-> FALSE]
    /\ UNCHANGED <<last_rotation, cookie_mtime, sess_now, sess_ticks>>

\* mark_session_failure(email)
MarkSessionFailure(email) ==
    /\ LET stats == Get(session_health, email, NoStats)
       IN  session_health' = Put(session_health, email,
                                 [stats EXCEPT !.failure = @ + 1])
    /\ sess_last' = [op |-> "failure", email |-> email, result |-> FALSE]
    /\ UNCHANGED <<last_rotation, cookie_mtime, sess_now, sess_ticks>>

\* A rotation test that already fires at the interval itself.
RotationDueAtInterval(now, last) == now - last >= rotation_interval

\* rotate_session_if_needed, line 71
RotationDue(now, last) == now - last > rotation_interval

\* The rotation time a call that never records the rotation leaves.
LastRotationKept(due, now, last) == last

\* rotate_session_if_needed, line 73
LastRotationAfter(due, now, last) == IF due THEN now ELSE last

\* rotate_session_if_needed()
RotateSessionIfNeeded ==
    LET due == RotationDue(sess_now, last_rotation)
    IN  /\ last_rotation' = LastRotationAfter(due, sess_now, last_rotation)
        /\ sess_last' = [op |-> "rotate", email |-> "", result |-> due]
        /\ UNCHANGED <<session_health, cookie_mtime, sess_now, sess_ticks>>

\* save_session_cookies(email, cookies): the cookie file is written now
SaveSessionCookies(email) ==
    /\ cookie_mtime' = Put(cookie_mtime, email, sess_now)
    /\ sess_last' = [op |-> "save", email |-> email, result |-> TRUE]
    /\ UNCHANGED <<session_health, last_rotation, sess_now, sess_ticks>>

\* has_valid_cookies(email)
HasValidCookies(email) ==
    /\ sess_last' = [op |-> "has_valid", email |-> email,
                     result |-> /\ email \in DOMAIN cookie_mtime
                                /\ sess_now - cookie_mtime[email] < CookieMaxAge]
    /\ UNCHANGED <<session_health, last_rotation, cookie_mtime, sess_now, sess_ticks>>

\* Clock advances the session manager is observed across.
MaxSessTicks == 3

SessTickSteps == {1, rotation_interval, CookieMaxAge}

\* time.time() moves on between two calls
SessTick ==
    /\ sess_ticks < MaxSessTicks
    /\ sess_ticks' = sess_ticks + 1
    /\ \E d \in SessTickSteps : sess_now' = sess_now + d
    /\ sess_last' = [op |-> "tick", email |-> "", result |-> FALSE]
    /\ UNCHANGED <<session_health, last_rotation, cookie_mtime>>

\* Health events recorded for one account when its score is followed, and for any
\* other account.
MaxHealthEvents == 50

MaxOtherEvents == 2

Events(email) ==
    Get(session_health, email, NoStats).success + Get(session_health, email, NoStats).failure

\* Health events recorded in all when the whole session manager is followed.
FewEvents == Events("a@x.io") + Events("b@x.io") < MaxOtherEvents

\* Accounts that get a cookie file.
MaxCookieFiles == 1

FileBudget(email) ==
    email \in DOMAIN cookie_mtime \/ Cardinality(DOMAIN cookie_mtime) < MaxCookieFiles

\* The account whose score is followed through MaxHealthEvents events.
HealthBudget(email) ==
    Events(email) < (IF email = "a@x.io" THEN MaxHealthEvents ELSE MaxOtherEvents)

(***************************************************************************)
(* RateLimitMiddleware (app/core/middleware.py)                            *)
(***************************************************************************)
\* settings.RATE_LIMIT, the requests let through per window; read from the
\* environment, 60 when unset.
RATE_LIMIT == 2

rate_limit == RATE_LIMIT

\* self.window, in seconds
window == 60

ClientIps == {"10.0.0.1", "10.0.0.2"}

NoRequest == [op |-> "none", ip |-> "", status |-> 0]

RateInit ==
    /\ requests = EmptyDict
    /\ rate_now = 0
    /\ rate_ticks = 0
    /\ rate_last = NoRequest
    /\ rate_passed = [ip \in ClientIps |-> << >>]

StillInWindowOrAtItsEnd(current_time, t) == current_time - t <= window

\* The test of the clean-up: the time stamp is less than a window old.
StillInWindow(current_time, t) == current_time - t < window

\* [t for t in self.requests[ip] if current_time - t < self.window], [] for a new ip
Cleaned(ip, current_time) ==
    IF ip \in DOMAIN requests
    THEN SelectSeq(requests[ip], LAMBDA t : StillInWindow(current_time, t))
    ELSE << >>

\* dispatch(request, call_next) for a request from ip: raises HTTPException 429
\* when the cleaned list is full, else records the arrival and calls the next layer.
RateLimitDispatch(ip) ==
    LET current_time == rate_now
        kept == Cleaned(ip, current_time)
    IN IF Len(kept) >= rate_limit
       THEN /\ requests' = Put(requests, ip, kept)
            /\ rate_last' = [op |-> "dispatch", ip |-> ip, status |-> 429]
            /\ UNCHANGED <<rate_now, rate_ticks, rate_passed>>
       ELSE /\ requests' = Put(requests, ip, Append(kept, current_time))
            /\ rate_last' = [op |-> "dispatch", ip |-> ip, status |-> 200]
            /\ rate_passed' = [rate_passed EXCEPT ![ip] = Append(@, current_time)]
            /\ UNCHANGED <<rate_now, rate_ticks>>

MaxRateTicks == 3

RateTickSteps == {1, window - 1}

\* time.time() moves on between two requests
RateTick ==
    /\ rate_ticks < MaxRateTicks
    /\ rate_ticks' = rate_ticks + 1
    /\ \E d \in RateTickSteps : rate_now' = rate_now + d
    /\ rate_last' = [op |-> "tick", ip |-> "", status |-> 0]
    /\ UNCHANGED <<requests, rate_passed>>

(***************************************************************************)
(* Specifications: each component on its own, the others at rest.          *)
(***************************************************************************)
SchedRest == UNCHANGED <<poolVars, execVars, runs, raceVars, loader, sessVars, rateVars>>

SchedStep ==
    \/ (\E r \in Requests : ScheduleTask(r)) /\ SchedRest
    \/ (\E id \in TaskIds \cup {""} : MarkTaskComplete(id)) /\ SchedRest
    \/ ClearStaleTasks /\ SchedRest
    \/ SchedTick /\ SchedRest

\* The scheduler as constructed; no proxies loaded, no loop started, no runs.
SchedStart == SchedInit /\ PoolIdle /\ ExecIdle /\ runs = << >> /\ WorkersIdle /\ SessInit /\ RateInit

SchedSpec == SchedStart /\ [][SchedStep]_vars

WorkStep ==
    \/ (\E r \in Requests : ScheduleTask(r)) /\ SchedRest
    \/ (\E id \in TaskIds \cup {""} : MarkTaskComplete(id)) /\ SchedRest
    \/ ClearStaleTasks /\ SchedRest
    \/ (\E id \in TaskIds : BeginProcessing(id)) /\ SchedRest
    \/ SchedTick /\ SchedRest

\* The scheduler together with the workers that take up its tasks.
WorkSpec == SchedStart /\ [][WorkStep]_vars

PoolRest == UNCHANGED <<schedVars, execVars, runs, raceVars, loader, sessVars, rateVars>>

PoolStep ==
    \/ (\E imp \in Importances : GetOptimalProxy(imp)) /\ PoolRest
    \/ (\E p \in PoolProxies \cup {""} : MarkProxyAsFailed(p)) /\ PoolRest
    \/ (\E p \in PoolProxies \cup {""} : MarkProxySuccess(p)) /\ PoolRest
    \/ PoolTick /\ PoolRest

\* The pool as loaded from a proxy file of 0..MaxProxies lines.
PoolStart == SchedInit /\ PoolInit /\ ExecIdle /\ runs = << >> /\ WorkersIdle /\ SessInit /\ RateInit

PoolSpec == PoolStart /\ [][PoolStep]_vars

ExecRest == UNCHANGED <<schedVars, poolVars, runs, raceVars, loader, sessVars, rateVars>>

ExecStep ==
    \/ RouteStart /\ ExecRest
    \/ Enter /\ ExecRest
    \/ LoopHead /\ ExecRest
    \/ Setup /\ ExecRest
    \/ Authenticate /\ ExecRest
    \/ Extract /\ ExecRest
    \/ Persist /\ ExecRest
    \/ Empty /\ ExecRest
    \/ Except /\ ExecRest
    \/ Resetup /\ ExecRest

\* A scraper constructed for one submission, its task record pending.
ExecStart == SchedInit /\ PoolIdle /\ ExecInit /\ runs = << >> /\ WorkersIdle /\ SessInit /\ RateInit

ExecSpec == ExecStart /\ [][ExecStep]_vars

\* The coroutine that runs the loop is scheduled for as long as it has a step to take.
ExecFairSpec == ExecSpec /\ WF_vars(ExecStep)

RaceRest == UNCHANGED <<schedVars, execVars, runs, loader, sessVars, rateVars>>

RaceStep ==
    \/ (\E t \in Threads, p \in PoolProxies : FailedRead(t, p)) /\ RaceRest
    \/ (\E t \in Threads : FailedWrite(t)) /\ RaceRest
    \/ (\E t \in Threads, imp \in Importances : AcquireRead(t, imp)) /\ RaceRest
    \/ (\E t \in Threads : AcquireWrite(t)) /\ RaceRest

\* The loaded pool, called by the worker threads with no call under way.
RaceStart == SchedInit /\ PoolInit /\ ExecIdle /\ runs = << >> /\ WorkersIdle /\ SessInit /\ RateInit

RaceSpec == RaceStart /\ [][RaceStep]_vars

LoadRest == UNCHANGED <<schedVars, execVars, runs, raceVars, sessVars, rateVars>>

LoadStep == Load /\ LoadRest

\* An EnhancedProxyHandler under construction, its proxy file read.
LoadStart == SchedInit /\ LoadInit /\ ExecIdle /\ runs = << >> /\ WorkersIdle /\ SessInit /\ RateInit

LoadSpec == LoadStart /\ [][LoadStep]_vars

SessRest == UNCHANGED <<schedVars, poolVars, execVars, runs, raceVars, loader, rateVars>>

HealthStep ==
    \/ (\E email \in Accounts : HealthBudget(email) /\ MarkSessionSuccess(email)) /\ SessRest
    \/ (\E email \in Accounts : HealthBudget(email) /\ MarkSessionFailure(email)) /\ SessRest

\* A session manager as constructed; no proxies loaded, nothing scheduled.
SessStart == SchedInit /\ PoolIdle /\ ExecIdle /\ runs = << >> /\ WorkersIdle /\ SessInit /\ RateInit

\* The health records alone, one account followed through many events.
HealthSpec == SessStart /\ [][HealthStep]_vars

SessStep ==
    \/ (\E email \in Accounts : FewEvents /\ MarkSessionSuccess(email)) /\ SessRest
    \/ (\E email \in Accounts : FewEvents /\ MarkSessionFailure(email)) /\ SessRest
    \/ RotateSessionIfNeeded /\ SessRest
    \/ (\E email \in Accounts : FileBudget(email) /\ SaveSessionCookies(email)) /\ SessRest
    \/ (\E email \in Accounts : HasValidCookies(email)) /\ SessRest
    \/ SessTick /\ SessRest

SessSpec == SessStart /\ [][SessStep]_vars

RateRest == UNCHANGED <<schedVars, poolVars, execVars, runs, raceVars, loader, sessVars>>

RateStep ==
    \/ (\E ip \in ClientIps : RateLimitDispatch(ip)) /\ RateRest
    \/ RateTick /\ RateRest

\* The middleware as constructed, no request seen yet.
RateStart == SchedInit /\ PoolIdle /\ ExecIdle /\ runs = << >> /\ WorkersIdle /\ SessInit /\ RateInit

RateSpec == RateStart /\ [][RateStep]_vars

SysRest == UNCHANGED <<poolVars, execVars, raceVars, loader, sessVars, rateVars>>

SysStep ==
    \/ (\E r \in RouteRequests : RouteScrape(r)) /\ SysRest
    \/ (\E r \in Requests : Dispatch(r)) /\ SysRest
    \/ (\E i \in 1..Len(runs) : RunEnter(i)) /\ SysRest
    \/ (\E i \in 1..Len(runs) : RunProcess(i)) /\ SysRest
    \/ (\E i \in 1..Len(runs), st \in TerminalStatuses : RunReturn(i, st)) /\ SysRest
    \/ (\E i \in 1..Len(runs) : RunMarkComplete(i)) /\ SysRest
    \/ SysTick /\ SysRest

SysSpec == SchedStart /\ [][SysStep]_vars

(***************************************************************************)
(* Properties of the runs.                                                 *)
(***************************************************************************)
\* C1: at no time are two runs that have not returned working on the same entity.
C1_OneRunPerEntity ==
    \A i \in 1..Len(runs), j \in 1..Len(runs) :
        (i # j /\ Running(i) /\ Running(j)) => runs[i].entity # runs[j].entity

(***************************************************************************)
(* Scheduler properties.                                                   *)
(***************************************************************************)
\* The step is a schedule() call for task id.
ScheduleStepFor(id) == sched_last'.op = "schedule" /\ sched_last'.task_id = id

\* C2: while a task id has an Accepted schedule() that is at most 600 s old, with no
\* mark_task_complete(id) and no clear_stale_tasks() since, every further schedule()
\* for it is rejected as already in progress and the active entry, start time
\* included, stays as it is.
C2_DuplicateInFlightRejected ==
    [][\A id \in TaskIds :
          (/\ ScheduleStepFor(id)
           /\ id \in DOMAIN sched_accepted
           /\ sched_now - sched_accepted[id] <= 600)
          => /\ sched_last' = Rejected(id, "Task already in progress")
             /\ id \in DOMAIN active_tasks
             /\ active_tasks' = active_tasks]_vars

\* A duplicate was rejected at the very edge of the window: the entry is 600 s old.
C2_Witness ==
    \E id \in DOMAIN sched_accepted :
        /\ sched_last = Rejected(id, "Task already in progress")
        /\ sched_now - sched_accepted[id] = 600
        /\ id \in DOMAIN active_tasks
        /\ active_tasks[id].start_time = sched_accepted[id]

\* C6: once mark_task_complete(id) has moved an active task to the cool-off set, and
\* until clear_stale_tasks() runs, every schedule() for that id is rejected as recently
\* completed and creates no active entry.
C6_RecentlyCompletedRejected ==
    [][\A id \in TaskIds :
          (ScheduleStepFor(id) /\ id \in sched_done)
          => /\ sched_last' = Rejected(id, "Task recently completed")
             /\ id \notin DOMAIN active_tasks']_vars

\* A task was completed and its resubmission, ten minutes later, rejected.
C6_Witness ==
    \E id \in sched_done :
        /\ sched_last = Rejected(id, "Task recently completed")
        /\ id \in completed_tasks
        /\ id \notin DOMAIN active_tasks
        /\ sched_now >= 600

C3_OneTerminalStatus ==
    (ex_pc = "returned" /\ HasStore(ex_kind))
    => /\ ex_status \in {"completed", "failed"}
       /\ Cardinality(ex_terminals) = 1

\* A company run returned failed after an empty result and three extractor errors.
C3_Witness ==
    /\ ex_pc = "returned"
    /\ ex_kind = "company"
    /\ ex_status = "failed"
    /\ ex_error = "Failed after 3 attempts"
    /\ retries = 3
    /\ ex_attempts = 4

\* C4: every run of a retry loop returns, whatever the extractor does.
C4_EveryRunReturns == <>(ex_pc = "returned")

\* C5: the extractor is invoked at most max_retries (3) times in one run.
C5_AttemptsAtMostMaxRetries == ex_attempts <= 3

(***************************************************************************)
(* Pool properties.                                                        *)
(***************************************************************************)
\* C8: get_optimal_proxy returns None only if no proxy of any tier is out of cooldown.
C8_ExhaustedOnlyIfNoneEligible ==
    (pool_last.op = "acquire" /\ pool_last.proxy = "None")
    => \A p \in PoolProxies : ~Selectable(p)

\* The step is a mark_proxy_as_failed(p) call, p not empty.
FailedStepFor(p) == pool_last'.op = "failed" /\ pool_last'.proxy = p /\ p # ""

\* The step is a mark_proxy_success(p) call, p not empty.
SuccessStepFor(p) == pool_last'.op = "success" /\ pool_last'.proxy = p /\ p # ""

C11_HeldProxyNotHandedOutAgain ==
    [][(/\ pool_last.op = "acquire"
        /\ pool_last.proxy # "None"
        /\ pool_last'.op = "acquire")
       => pool_last'.proxy # pool_last.proxy]_vars

\* The reasons a run ends with before its retries are used up.
EarlyErrors ==
    {"Task timed out after 5 minutes", "Failed to initialize WebDriver", "Authentication failed"}

\* C12: a run over a proxy file of one proxy whose extractor raises on every call makes
\* exactly 3 extractor calls and returns failed with "Failed after 3 attempts"; after
\* it the proxy has 3 recorded failures and a cooldown of min(60 * 4, 3600) = 240 s.
\* Failure counts and cooldowns are kept by EnhancedProxyHandler only.
C12_OneProxyThreeFailures ==
    (/\ ex_pc = "returned"
     /\ HasStore(ex_kind)
     /\ proxies = {"pA"}
     /\ ex_all_raised
     /\ ex_attempts > 0
     /\ ex_prev_proxy = "pA"
     /\ ex_error \notin EarlyErrors)
    => /\ ex_attempts = 3
       /\ ex_status = "failed"
       /\ ex_error = "Failed after 3 attempts"
       /\ Get(proxy_failures, "pA", 0) = 3
       /\ Get(proxy_cooldowns, "pA", 0) - pool_now = 240

\* C13: with no proxy to hand out, the run never calls the extractor, counts no
\* attempt and returns failed.
C13_NoProxyNoAttempt ==
    (HasStore(ex_kind) /\ proxies = {})
    => /\ ex_pc # "extract"
       /\ ex_attempts = 0
       /\ retries = 0
       /\ ex_pc = "returned" => ex_status = "failed"

\* C14: an empty extractor result is handled like an extractor error: the retry is
\* counted and completed is never written for it.
C14_EmptyCountsAsFailure ==
    [][(ex_pc = "got_empty" /\ HasStore(ex_kind))
       => /\ retries' = retries + 1
          /\ ex_status' # "completed"]_vars

\* C15: with credentials configured, a failed authenticate() counts one retry and the
\* run goes on while retries are left; it does not end the run failed at once.
C15_AuthFailureRetried ==
    [][(/\ ex_pc = "auth"
        /\ HasStore(ex_kind)
        /\ credentials
        /\ ex_pc' # "extract")
       => /\ retries' = retries + 1
          /\ retries' < max_retries
               => (ex_pc' # "returned" /\ ex_status' \notin TerminalStatuses)]_vars

\* C16: the attempt that follows a failed attempt runs on another proxy than the one
\* the failed attempt ran on.
C16_NextAttemptOnOtherProxy ==
    (ex_pc = "extract" /\ ex_prev_proxy \notin {"NoFailure", "None"})
    => current_proxy # ex_prev_proxy

\* The step leaves the head of the loop for a new attempt.
StartsAttempt == ex_pc = "loop" /\ ex_pc' \in {"setup", "extract"}

\* C17: no attempt starts once more than 300 s have passed since the run began, and
\* the timed-out failure is written only when more than 300 s have passed.
C17_DeadlineAtLoopHead ==
    [][HasStore(ex_kind)
       => /\ StartsAttempt => ex_elapsed <= 300
          /\ (ex_error' = "Task timed out after 5 minutes" /\ ex_error' # ex_error)
               => ex_elapsed > 300]_vars

\* C18: the record has left pending (in_progress was written) before the run sets up
\* a driver, authenticates or calls the extractor.
C18_InProgressBeforeWork ==
    (HasStore(ex_kind) /\ ex_pc \in {"setup", "auth", "extract", "got_data", "got_empty", "except"})
    => ex_status # "pending"

C20_CompletedHasResultRef ==
    ex_status = "completed" => ex_result_ref

\* C21: the step in which a run completes its task (result persisted, completed
\* written) also reports the proxy as successful to the pool, mark_proxy_success, and
\* the task as complete to the scheduler, mark_task_complete.
C21_SuccessReleasesAndMarksComplete ==
    [][(/\ HasStore(ex_kind)
        /\ ex_pc = "got_data"
        /\ ex_status' = "completed")
       => /\ pool_last'.op = "success"
          /\ sched_last'.op = "complete"]_vars

\* The tier a proxy was loaded into, and its place in a list.
TierOf(p) == CHOOSE t \in Range(Tiers) : p \in Range(proxy_groups[t])

PosIn(seq, x) == CHOOSE i \in 1..Len(seq) : seq[i] = x

\* The step is a get_optimal_proxy call that returned a proxy.
AcquiredStep == pool_last'.op = "acquire" /\ pool_last'.proxy # "None"

C23_AcceptedIsQueued ==
    [][\A id \in TaskIds :
          ScheduleStepFor(id)
          => IF sched_last'.scheduled
             THEN Len(task_queue') = Len(task_queue) + 1
             ELSE task_queue' = task_queue]_vars

\* C24: the priority an Accepted schedule() returns and stores is 1 for a job, 2 for a
\* profile, 3 for a company and 1 for any other entity type, whatever the task type,
\* entity id, url and earlier calls.
C24_PriorityFromTable ==
    [][\A id \in TaskIds :
          (ScheduleStepFor(id) /\ sched_last'.scheduled)
          => LET et == active_tasks'[id].entity_type
                 expected == CASE et = "job" -> 1
                               [] et = "profile" -> 2
                               [] et = "company" -> 3
                               [] OTHER -> 1
             IN  /\ sched_last'.priority = expected
                 /\ active_tasks'[id].priority = expected]_vars

\* An entity type outside the table was accepted with priority 1 while a company job
\* search is active with priority 3.
C24_Witness ==
    /\ sched_last = Accepted("page_7", 1)
    /\ "page_7" \in DOMAIN active_tasks
    /\ active_tasks["page_7"].priority = 1
    /\ "company_42" \in DOMAIN active_tasks
    /\ active_tasks["company_42"].type = "job_search"
    /\ active_tasks["company_42"].priority = 3

\* The step is a mark_task_complete(id) call.
CompleteStepFor(id) == sched_last'.op = "complete" /\ sched_last'.task_id = id

\* C25 as stated: after mark_task_complete(id), id not empty, the id is not active and
\* is in the cool-off set, whether or not it was active before the call.
C25_CompleteAlwaysCoolsOff ==
    [][\A id \in TaskIds :
          CompleteStepFor(id)
          => /\ id \notin DOMAIN active_tasks'
             /\ id \in completed_tasks']_vars

\* C25 as amended: after mark_task_complete(id), id not empty, the id is not active;
\* it is in the cool-off set when it was active or already there before the call,
\* and a call for an id that was neither leaves both sets as they were.
C25_CompleteCoolsOffActive ==
    [][\A id \in TaskIds :
          CompleteStepFor(id)
          => /\ id \notin DOMAIN active_tasks'
             /\ (id \in DOMAIN active_tasks \/ id \in completed_tasks) => id \in completed_tasks'
             /\ (id \notin DOMAIN active_tasks /\ id \notin completed_tasks)
                  => /\ completed_tasks' = completed_tasks
                     /\ active_tasks' = active_tasks
             /\ \A other \in TaskIds \ {id} :
                   /\ (other \in DOMAIN active_tasks') = (other \in DOMAIN active_tasks)
                   /\ (other \in completed_tasks') = (other \in completed_tasks)]_vars

\* mark_task_complete moved an active task to the cool-off set while another task
\* stays active.
C25_Witness ==
    \E id \in TaskIds :
        /\ sched_last.op = "complete"
        /\ sched_last.task_id = id
        /\ id \in sched_done
        /\ id \in completed_tasks
        /\ id \notin DOMAIN active_tasks
        /\ DOMAIN active_tasks # {}

C27_TaskIdIsStoreId ==
    /\ sched_last.op = "schedule"
          => \E r \in Requests : sched_last.task_id = r.entity_type \o ":" \o r.entity_id
    /\ \A i \in 1..Len(runs) : runs[i].store_id = runs[i].entity

\* C28: pool calls made by concurrent workers leave the state some serial order of
\* the calls leaves: once every call has returned, each proxy's failure count is the
\* number of mark_proxy_as_failed calls made for it and its usage count the number of
\* get_optimal_proxy calls that returned it; no update is lost.
C28_NoLostUpdate ==
    (\A t \in Threads : workers[t].pc = "idle")
        => \A p \in PoolProxies :
              /\ Get(proxy_failures, p, 0) = Get(race_calls.failed, p, 0)
              /\ Get(proxy_usage, p, 0) = Get(race_calls.acquired, p, 0)

C30_TiersPartitionTheList ==
    loader.loaded
       => LET n == Len(loader.all_proxies)
          IN  /\ Len(proxy_groups.tier1) = n \div 3
              /\ Len(proxy_groups.tier2) = n \div 3
              /\ Len(proxy_groups.tier3) = n - 2 * (n \div 3)
              /\ proxy_groups.tier1 \o proxy_groups.tier2 \o proxy_groups.tier3
                    = loader.all_proxies

\* Five lines, one of them twice, loaded as one, one and three.
C30_Witness ==
    /\ loader.loaded
    /\ Len(loader.all_proxies) = 5
    /\ loader.all_proxies[1] = loader.all_proxies[4]
    /\ Len(proxy_groups.tier1) = 1
    /\ Len(proxy_groups.tier3) = 3

\* C31: an account's health score is 100 while nothing is recorded for it and
\* otherwise floor(100 * success / (success + failure)); it lies in 0..100.
C31_HealthIsFloorOfRatio ==
    \A email \in Accounts :
        LET stats == Get(session_health, email, NoStats)
            total == stats.success + stats.failure
        IN  /\ GetSessionHealth(email) \in 0..100
            /\ GetSessionHealth(email) =
                  IF total = 0 THEN 100 ELSE (100 * stats.success) \div total

\* C32: rotate_session_if_needed returns true exactly when more than
\* rotation_interval seconds have passed since the last rotation, and false at
\* exactly the interval, whatever successes and failures the accounts have.
C32_RotateWhenIntervalPassed ==
    [][sess_last'.op = "rotate"
          => (sess_last'.result <=> sess_now - last_rotation > rotation_interval)]_vars

\* The call answers false exactly rotation_interval seconds after the last rotation,
\* with an account whose record holds only failures.
C32_Witness ==
    /\ sess_last = [op |-> "rotate", email |-> "", result |-> FALSE]
    /\ sess_now - last_rotation = rotation_interval
    /\ \E email \in Accounts : Events(email) > 0 /\ GetSessionHealth(email) = 0

\* C33: the saved session of an account is taken as usable only while the account's
\* health is at least the minimum threshold (any threshold above 0 here) and the
\* session is younger than the refresh window; a newly saved session starts with
\* the account's health record reset.
C33_CachedOnlyWhenHealthy ==
    /\ (sess_last.op = "has_valid" /\ sess_last.result)
          => /\ GetSessionHealth(sess_last.email) > 0
             /\ sess_now - cookie_mtime[sess_last.email] < CookieMaxAge
    /\ sess_last.op = "save" => Events(sess_last.email) = 0

\* C40: a rotate_session_if_needed call that returns true sets last_rotation to the
\* current time, so that a call right after it returns false; a call that returns
\* false leaves last_rotation as it was.
C40_RotationIsConsumed ==
    [][sess_last'.op = "rotate"
          => /\ last_rotation' = (IF sess_last'.result THEN sess_now ELSE last_rotation)
             /\ ~RotationDue(sess_now', last_rotation')]_vars

\* After a rotation, a call made one second later answers false.
C40_Witness ==
    /\ sess_last = [op |-> "rotate", email |-> "", result |-> FALSE]
    /\ last_rotation > rotation_interval
    /\ sess_now - last_rotation \in 1..(rotation_interval - 1)

\* C34: the cool-off ends.  A schedule_task for an id whose completion lies more than
\* the cool-off window back, and which has no active entry, is Accepted, with no
\* clear_stale_tasks call in between.
C34_CoolOffEnds ==
    [][\A id \in TaskIds :
          (/\ ScheduleStepFor(id)
           /\ id \in DOMAIN sched_done_at
           /\ sched_now - sched_done_at[id] > CoolOffWindow
           /\ id \notin DOMAIN active_tasks)
             => sched_last'.scheduled]_vars

\* C37: a schedule_task call that is rejected changes nothing in the scheduler: the
\* active entries, the processing set, the cool-off set and the queue are as before,
\* also when the id is in the processing set.
C37_RejectedChangesNothing ==
    [][\A id \in TaskIds :
          (ScheduleStepFor(id) /\ ~sched_last'.scheduled)
             => UNCHANGED <<active_tasks, processing, completed_tasks, task_queue>>]_vars

\* C35: after the k-th failed attempt of a company, profile or job run, with a retry
\* to follow, the run sleeps between 2^k and 2^k + 1 seconds; after the last failed
\* attempt it does not sleep.  (Sleeps that end beyond the time limit are not measured.)
C35_BackoffDoubles ==
    [][(HasStore(ex_kind) /\ ex_pc = "except")
          => IF retries' < max_retries
             THEN ex_elapsed' <= max_execution_time
                     => ex_elapsed' - ex_elapsed \in Pow2(retries')..(Pow2(retries') + 1)
             ELSE ex_elapsed' = ex_elapsed]_vars

\* C36: what get_status reports fits the pool: the cooldown count is the number of
\* proxies whose cooldown has not ended, available and cooling together are all the
\* proxies, the tier counts add up to the total, and the failed count is the number
\* of proxies with a failure count above 0.
C36_StatusConsistent ==
    LET st == GetStatus
    IN  /\ st.cooldown_proxies
              = Cardinality({ p \in PoolProxies : p \in DOMAIN proxy_cooldowns
                                                   /\ proxy_cooldowns[p] >= pool_now })
        /\ st.available_proxies + st.cooldown_proxies = st.total_proxies
        /\ st.tiers.tier1 + st.tiers.tier2 + st.tiers.tier3 = st.total_proxies
        /\ st.failed_proxies
              = Cardinality({ p \in PoolProxies : Get(proxy_failures, p, 0) > 0 })

\* C38: get_optimal_proxy never returns a proxy whose cooldown ends in the future; a
\* call that returns a proxy adds exactly 1 to that proxy's usage count and changes
\* nothing else; a call that returns None changes nothing; and no failure count is
\* ever negative.
C38_AcquireCountsOnce ==
    /\ [][pool_last'.op = "acquire"
             => /\ UNCHANGED <<proxy_groups, proxy_cooldowns, proxy_failures>>
                /\ IF pool_last'.proxy = "None"
                   THEN UNCHANGED proxy_usage
                   ELSE LET p == pool_last'.proxy
                        IN  /\ p \in PoolProxies
                            /\ ~(p \in DOMAIN proxy_cooldowns /\ proxy_cooldowns[p] > pool_now)
                            /\ proxy_usage' = Put(proxy_usage, p, Get(proxy_usage, p, 0) + 1)]_vars
    /\ [](\A p \in DOMAIN proxy_failures : proxy_failures[p] >= 0)

\* A proxy is returned for the second time while another proxy of the pool, which
\* has failed, is still cooling down.
C38_Witness ==
    \E p, q \in PoolProxies :
        /\ pool_last = [op |-> "acquire", proxy |-> p]
        /\ Get(proxy_usage, p, 0) >= 2
        /\ q # p
        /\ OnCooldown(q)
        /\ Get(proxy_failures, q, 0) >= 1

(***************************************************************************)
(* Rate limiter properties.                                                *)
(***************************************************************************)
\* Accepted requests of ip that are less than a window old at time now.
RecentPassed(ip, now) ==
    Cardinality({k \in 1..Len(rate_passed[ip]) : now - rate_passed[ip][k] < window})

\* C39: a request from an ip is answered 429 exactly when rate_limit requests of
\* that ip that were let through are less than 60 s old; a rejected request is not
\* recorded, an accepted one is recorded once; the lists and the history of every
\* other ip stay as they are; and at all times, for every ip, the requests let
\* through within less than 60 s from any one of them number at most rate_limit.
C39_AtMostLimitPerWindow ==
    /\ [][\A ip \in ClientIps :
            (rate_last'.op = "dispatch" /\ rate_last'.ip = ip) =>
                /\ (rate_last'.status = 429) <=> (RecentPassed(ip, rate_now) >= rate_limit)
                /\ rate_last'.status \in {200, 429}
                /\ rate_last'.status = 429 =>
                      /\ rate_passed' = rate_passed
                      /\ Len(requests'[ip]) = RecentPassed(ip, rate_now)
                /\ rate_last'.status = 200 =>
                      /\ rate_passed'[ip] = Append(rate_passed[ip], rate_now)
                      /\ Len(requests'[ip]) = RecentPassed(ip, rate_now) + 1
                /\ \A other \in ClientIps \ {ip} :
                      /\ rate_passed'[other] = rate_passed[other]
                      /\ (other \in DOMAIN requests') = (other \in DOMAIN requests)
                      /\ other \in DOMAIN requests => requests'[other] = requests[other]]_vars
    /\ [](\A ip \in ClientIps : \A a \in 1..Len(rate_passed[ip]) :
            Cardinality({k \in 1..Len(rate_passed[ip]) :
                            /\ rate_passed[ip][k] >= rate_passed[ip][a]
                            /\ rate_passed[ip][k] - rate_passed[ip][a] < window}) <= rate_limit)

\* A request is refused for an ip that has had more than rate_limit requests let
\* through over time, the oldest no longer counted, while the other ip has requests
\* of its own in its window.
C39_Witness ==
    /\ rate_last.op = "dispatch" /\ rate_last.status = 429
    /\ Len(rate_passed[rate_last.ip]) > rate_limit
    /\ \E other \in ClientIps \ {rate_last.ip} : RecentPassed(other, rate_now) > 0

====
